---- MODULE Spec2Model ----
(***************************************************************************)
(* Object Resolution & Range-Delivery Gateway                              *)
(* (matlycreative/realestate-to-trello, Cloudflare Pages functions).       *)
(*                                                                         *)
(* Two stateless request handlers around one R2 bucket:                    *)
(*   - the resolve handler  GET /api/sample?id=<identifier>                *)
(*   - the stream handler   GET /api/stream?key=<key>[&download=1]         *)
(* The repository holds several variants of each handler; every variant    *)
(* that the verified statements refer to is modelled, and a request names  *)
(* the variant that serves it (req.handler).                               *)
(*                                                                         *)
(* Strings are sequences of one-character strings, so that the string      *)
(* operations of the handlers (trim, replace, split/pop, endsWith,         *)
(* encodeURIComponent, the Range regular expressions) are computed and     *)
(* not assumed.  JavaScript null/undefined is the one-token sequence Null; *)
(* a JSON field that is not emitted is Absent.                             *)
(***************************************************************************)
EXTENDS Integers, Sequences, FiniteSets, TLC

VARIABLES
    bucket,   \* env.R2_BUCKET: key -> stored object (body and metadata)
    now,      \* the wall clock read by `new Date()`
    pc,       \* position of the request in flight: the await it is suspended at
    req,      \* inputs of the request in flight (or of the last one)
    loc,      \* local variables of the handler invocation
    calls,    \* backend calls issued by the request, in order
    resp,     \* the Response returned (valid when pc = "done")
    prev      \* <<>>, or the previous request and its response when the
              \* request in flight repeats it against the same backend

vars == <<bucket, now, pc, req, loc, calls, resp, prev>>

-----------------------------------------------------------------------------
(* Bounds of the model.                                                    *)

\* longest `key` of a pointer record; stored objects have keys one longer
MaxKeyLen == 2
\* most video objects in the bucket
MaxObjects == 1
\* largest size of a streamed object, in bytes; Range headers name positions
\* up to MaxSize + 1
MaxSize == 2
\* latest instant of the wall clock
MaxClock == 1

-----------------------------------------------------------------------------
(* JavaScript values and string operations.                                *)

Null == <<"null">>
Absent == <<"absent">>

\* JS truthiness of a string-or-null value
Truthy(s) == s # Null /\ s # <<>>

\* `x || null`
OrNull(s) == IF Truthy(s) THEN s ELSE Null

SeqsUpTo(A, n) == UNION {[1..k -> A] : k \in 0..n}

RECURSIVE KSubsets(_, _)
KSubsets(S, n) ==
    IF n = 0 THEN {{}}
    ELSE LET R == KSubsets(S, n - 1) IN R \cup {T \cup {x} : T \in R, x \in S}

EndsWith(s, c) == Len(s) > 0 /\ s[Len(s)] = c

StartsWith(s, p) == Len(p) <= Len(s) /\ SubSeq(s, 1, Len(p)) = p

\* s.replace(/\/+$/, "")
RECURSIVE StripTrailingSlashes(_)
StripTrailingSlashes(s) ==
    IF EndsWith(s, "/") THEN StripTrailingSlashes(SubSeq(s, 1, Len(s) - 1)) ELSE s

\* s.replace(/\/$/, "")
StripOneSlash(s) == IF EndsWith(s, "/") THEN SubSeq(s, 1, Len(s) - 1) ELSE s

\* s.split(sep).pop()
LastSegment(s, sep) ==
    LET I == {i \in 1..Len(s) : s[i] = sep}
        last == IF I = {} THEN 0 ELSE CHOOSE i \in I : \A j \in I : j <= i
    IN  SubSeq(s, last + 1, Len(s))

\* s.trim()
RECURSIVE TrimLeft(_)
TrimLeft(s) == IF s # <<>> /\ s[1] = " " THEN TrimLeft(Tail(s)) ELSE s
RECURSIVE TrimRight(_)
TrimRight(s) == IF EndsWith(s, " ") THEN TrimRight(SubSeq(s, 1, Len(s) - 1)) ELSE s
Trim(s) == TrimRight(TrimLeft(s))

\* encodeURIComponent, one character: the unreserved characters are kept,
\* every other one becomes its %XX escape (one token of the result)
EncodeChar(c) ==
    CASE c = "/" -> "%2F"
      [] c = "@" -> "%40"
      [] c = " " -> "%20"
      [] c = "\"" -> "%22"
      [] OTHER -> c

EncodeURIComponent(s) ==
    IF s = <<>> THEN <<>> ELSE [i \in 1..Len(s) |-> EncodeChar(s[i])]

\* the characters of the model's keys, in code-point order
Ascii == <<"\"", ".", "/", "4", "@", "M", "O", "V", "a", "b", "e",
           "i", "j", "m", "n", "o", "p", "q", "r", "s", "t", "v", "w", "x">>

Ord(c) == CHOOSE i \in 1..Len(Ascii) : Ascii[i] = c

RECURSIVE LexLess(_, _)
LexLess(s, t) ==
    IF s = <<>> THEN t # <<>>
    ELSE IF t = <<>> THEN FALSE
    ELSE IF s[1] = t[1] THEN LexLess(Tail(s), Tail(t))
    ELSE Ord(s[1]) < Ord(t[1])

-----------------------------------------------------------------------------
(* The bucket.                                                             *)

\* metadata of an object the resolve handler only tests for existence
PlainMeta ==
    [size |-> 1, httpType |-> Null, customType |-> Null,
     httpEtag |-> Null, etag |-> <<"e">>, uploaded |-> <<"d">>]

\* body of a stored object as pointerObj.json() sees it
\*   json = "malformed": not JSON (json() throws); "null": the JSON value null;
\*   "record": an object, whose key/company are strings or missing (Null)
BinaryBody == [json |-> "malformed", key |-> Null, company |-> Null]

\* bucket.head(key) / bucket.get(key) find something
Has(b, k) == k \in DOMAIN b

\* bucket.list({prefix, limit: 1}): the first key with the prefix in the
\* backend's (lexicographic) order, Null when objects is empty
ListFirst(b, prefix) ==
    LET M == {k \in DOMAIN b : StartsWith(k, prefix)}
    IN  IF M = {} THEN Null
        ELSE CHOOSE k \in M : \A j \in M \ {k} : LexLess(k, j)

\* a backend call as recorded in `calls`
Call(op, key, opt) == [op |-> op, key |-> key, opt |-> opt]

\* whether the backend call `op` of the request in flight throws: any call
\* may, and a repeated request meets the availability its original met
Throws(op) == IF prev = <<>> THEN BOOLEAN ELSE {prev[1].fault = op}

EmptyBucket == [k \in {} |-> PlainMeta]


-----------------------------------------------------------------------------
(* The resolve handler, GET /api/sample?id=<identifier>.                   *)
(* Variants: "sample1" is functions/api/sample.js lines 7-71 (presigned    *)
(* URL, business failures as 400/404/500), "sample2" is                    *)
(* functions/api/sample.js lines 84-130 (same-origin stream URL, always    *)
(* 200), "part000" is unnamed/part_000 (presigned URL, always 200).        *)

ResolveVariants == {"sample1", "sample2", "part000"}

\* url.origin of the request
Origin == <<"o">>

\* expiry of the presigned URL, in seconds (24 * 60 * 60)
SignedUrlExpiry == 86400

\* (env.PUBLIC_BASE && env.PUBLIC_BASE.trim()) || url.origin
BaseUrl(publicBase) ==
    IF Truthy(publicBase) /\ Truthy(Trim(publicBase)) THEN Trim(publicBase)
    ELSE Origin

\* `${base.replace(/\/$/, "")}/p/?id=${encodeURIComponent(id)}`
Link(publicBase, id) ==
    StripOneSlash(BaseUrl(publicBase)) \o <<"/p/?id=">> \o EncodeURIComponent(id)

\* `pointers/${id}.json`
PointerKey(id) ==
    <<"p", "o", "i", "n", "t", "e", "r", "s", "/">> \o id \o <<".", "j", "s", "o", "n">>

\* NestedKey without the removal of trailing slashes
NestedKeyUnstripped(realKey) == realKey \o <<"/">> \o LastSegment(realKey, "/")

\* `${baseKey}/${filename}` with baseKey = realKey.replace(/\/+$/, "") and
\* filename = baseKey.split("/").pop()
NestedKey(realKey) ==
    LET baseKey == StripTrailingSlashes(realKey)
        filename == LastSegment(baseKey, "/")
    IN  baseKey \o <<"/">> \o filename

\* ListPrefix without the endsWith test
ListPrefixAlwaysSlash(realKey) == realKey \o <<"/">>

\* realKey.endsWith("/") ? realKey : realKey + "/"
ListPrefix(realKey) == IF EndsWith(realKey, "/") THEN realKey ELSE realKey \o <<"/">>

\* createSignedUrl(realKey, {method: "GET", expiry}): an opaque capability
\* for that key
SignedUrl(realKey) == <<"signed:">> \o realKey

\* `/api/stream?key=${encodeURIComponent(realKey)}`
StreamUrl(realKey) == <<"/api/stream?key=">> \o EncodeURIComponent(realKey)

\* the name of the delivery-reference field of the variant
UrlField(v) == IF v = "sample2" THEN "streamUrl" ELSE "signedUrl"

\* json(data, status): new Response(JSON.stringify(data), {status, headers})
JsonResponse(status, urlField, url, company, link, error, foundKey, wantedKey, message) ==
    [status |-> status, contentType |-> "application/json",
     cacheControl |-> "no-store", text |-> "",
     urlField |-> urlField, url |-> url, company |-> company, link |-> link,
     error |-> error, foundKey |-> foundKey, wantedKey |-> wantedKey,
     message |-> message]

\* new Response(text, {status}): a plain-text body
TextResponse(status, text) ==
    [status |-> status, contentType |-> "text/plain",
     cacheControl |-> "", text |-> text,
     urlField |-> "", url |-> Absent, company |-> Absent, link |-> Absent,
     error |-> "", foundKey |-> Absent, wantedKey |-> Absent, message |-> ""]

NoResponse == TextResponse(0, "")

\* status of a business failure: json(..., 404) in sample1, json(...) elsewhere
FailureStatus(v) == IF v = "sample1" THEN 404 ELSE 200

\* if (!id) return ...
MissingIdResponse(v) ==
    IF v = "sample1" THEN TextResponse(400, "Missing id")
    ELSE JsonResponse(200, UrlField(v), Null, Null, Null, "MISSING_ID", Absent, Absent, "")

\* if (!pointerObj) return ...
PointerNotFoundResponse(v, link) ==
    JsonResponse(FailureStatus(v), UrlField(v), Null, Null, link,
                 "POINTER_NOT_FOUND", Absent, Absent, "")

\* EmptyKeyResponse with `company: null` written in place of the record's
EmptyKeyResponseNoCompany(v, link, pointer) ==
    JsonResponse(FailureStatus(v), UrlField(v), Null, Null, link,
                 "EMPTY_KEY", Absent, Absent, "")

\* if (!realKey) return ...
EmptyKeyResponse(v, link, pointer) ==
    JsonResponse(FailureStatus(v), UrlField(v), Null, OrNull(pointer.company), link,
                 "EMPTY_KEY", Absent, Absent, "")

\* the else branch of the prefix listing
ObjectNotFoundResponse(v, link, pointer, realKey) ==
    JsonResponse(FailureStatus(v), UrlField(v), Null, OrNull(pointer.company), link,
                 "OBJECT_NOT_FOUND", Absent, realKey, "")

\* return json({ signedUrl|streamUrl, company, link, foundKey: realKey })
SuccessResponse(v, url, link, pointer, realKey) ==
    JsonResponse(200, UrlField(v), url, OrNull(pointer.company), link,
                 "", realKey, Absent, "")

\* catch (err) { ... }: String(err) is the name of what was thrown
CatchResponse(v, err) ==
    IF v = "sample1" THEN TextResponse(500, "Server error")
    ELSE JsonResponse(200, UrlField(v), Null, Null, Null, "SERVER", Absent, Absent, err)

NoPointer == [json |-> "null", key |-> Null, company |-> Null]
NoLocals == [link |-> Null, pointer |-> NoPointer, realKey |-> <<>>, fault |-> "none"]
NoResolveRequest == [handler |-> "none", id |-> Null, publicBase |-> Null]

\* the request ends with response r
Return(r) == pc' = "done" /\ resp' = r /\ loc' = loc

\* backend call `op` throws; the handler's catch answers
ThrowFrom(op) ==
    /\ pc' = "done"
    /\ resp' = CatchResponse(req.handler, "BackendError")
    /\ loc' = [loc EXCEPT !.fault = op]

\* the handler throws by itself (SyntaxError of json(), TypeError)
ThrowOwn(err) == Return(CatchResponse(req.handler, err))

\* the key is resolved to k: sample2 answers at once, the others go on to sign
Resolved(k) ==
    IF req.handler = "sample2"
    THEN /\ pc' = "done"
         /\ loc' = [loc EXCEPT !.realKey = k]
         /\ resp' = SuccessResponse(req.handler, StreamUrl(k), loc.link, loc.pointer, k)
    ELSE /\ pc' = "sign"
         /\ loc' = [loc EXCEPT !.realKey = k]
         /\ resp' = resp

\* const id = url.searchParams.get("id"); if (!id) return ...; const link = ...
\* (everything before the first await)
ResolveBegin(v, id, publicBase) ==
    /\ req' = [handler |-> v, id |-> id, publicBase |-> publicBase]
    /\ calls' = <<>>
    /\ IF ~Truthy(id)
       THEN /\ pc' = "done"
            /\ resp' = MissingIdResponse(v)
            /\ loc' = NoLocals
       ELSE /\ pc' = "get"
            /\ resp' = NoResponse
            /\ loc' = [NoLocals EXCEPT !.link = Link(publicBase, id)]

\* a request arrives
ResolveStart(v, id, publicBase) ==
    /\ pc = "idle"
    /\ ResolveBegin(v, id, publicBase)
    /\ prev' = <<>>
    /\ UNCHANGED <<bucket, now>>

\* const pointerObj = await env.R2_BUCKET.get(pointerKey)
ResolveGet ==
    /\ pc = "get"
    /\ LET k == PointerKey(req.id) IN
       /\ calls' = Append(calls, Call("get", k, <<>>))
       /\ \E t \in Throws("get") :
            IF t THEN ThrowFrom("get")
            ELSE IF ~Has(bucket, k)
                 THEN Return(PointerNotFoundResponse(req.handler, loc.link))
                 ELSE /\ pc' = "json"
                      /\ loc' = [loc EXCEPT !.pointer = bucket[k].body]
                      /\ resp' = resp
    /\ UNCHANGED <<bucket, now, req, prev>>

\* const pointer = await pointerObj.json();
\* let realKey = (pointer && pointer.key) || ""; if (!realKey) return ...
ResolveJson ==
    /\ pc = "json"
    /\ calls' = Append(calls, Call("json", PointerKey(req.id), <<>>))
    /\ \E t \in Throws("json") :
         LET pointer == loc.pointer
             realKey == IF pointer.json = "record" /\ Truthy(pointer.key)
                        THEN pointer.key ELSE <<>>
         IN  IF t THEN ThrowFrom("json")
             ELSE IF pointer.json = "malformed" THEN ThrowOwn("SyntaxError")
             ELSE IF Truthy(realKey)
                  THEN /\ pc' = "head"
                       /\ loc' = [loc EXCEPT !.realKey = realKey]
                       /\ resp' = resp
                  ELSE IF pointer.json = "null" THEN ThrowOwn("TypeError")
                       ELSE Return(EmptyKeyResponse(req.handler, loc.link, pointer))
    /\ UNCHANGED <<bucket, now, req, prev>>

\* let head = await env.R2_BUCKET.head(realKey)
ResolveHead ==
    /\ pc = "head"
    /\ calls' = Append(calls, Call("head", loc.realKey, <<>>))
    /\ \E t \in Throws("head") :
         IF t THEN ThrowFrom("head")
         ELSE IF Has(bucket, loc.realKey) THEN Resolved(loc.realKey)
         ELSE pc' = "headNested" /\ loc' = loc /\ resp' = resp
    /\ UNCHANGED <<bucket, now, req, prev>>

\* if (!head) { ... const headNested = await env.R2_BUCKET.head(nestedKey); ... }
ResolveHeadNested ==
    /\ pc = "headNested"
    /\ LET nestedKey == NestedKey(loc.realKey) IN
       /\ calls' = Append(calls, Call("head", nestedKey, <<>>))
       /\ \E t \in Throws("headNested") :
            IF t THEN ThrowFrom("headNested")
            ELSE IF Has(bucket, nestedKey) THEN Resolved(nestedKey)
            ELSE pc' = "list" /\ loc' = loc /\ resp' = resp
    /\ UNCHANGED <<bucket, now, req, prev>>

\* if (!head) { const list = await env.R2_BUCKET.list({prefix, limit: 1}); ... }
ResolveList ==
    /\ pc = "list"
    /\ LET prefix == ListPrefix(loc.realKey)
           first == ListFirst(bucket, prefix)
       IN
       /\ calls' = Append(calls, Call("list", prefix, <<1>>))
       /\ \E t \in Throws("list") :
            IF t THEN ThrowFrom("list")
            ELSE IF first # Null THEN Resolved(first)
            ELSE Return(ObjectNotFoundResponse(req.handler, loc.link, loc.pointer,
                                               loc.realKey))
    /\ UNCHANGED <<bucket, now, req, prev>>

\* const signedUrl = await env.R2_BUCKET.createSignedUrl(realKey, {...}); return json(...)
ResolveSign ==
    /\ pc = "sign"
    /\ calls' = Append(calls, Call("sign", loc.realKey, <<SignedUrlExpiry>>))
    /\ \E t \in Throws("sign") :
         IF t THEN ThrowFrom("sign")
         ELSE Return(SuccessResponse(req.handler, SignedUrl(loc.realKey), loc.link,
                                     loc.pointer, loc.realKey))
    /\ UNCHANGED <<bucket, now, req, prev>>

-----------------------------------------------------------------------------
(* Requests and buckets of the resolve specification.                      *)

KeyChars == {"a", "/"}

\* values of the `key` field of a pointer record: missing, or a string
PointerKeyValues == {Null} \cup SeqsUpTo(KeyChars, MaxKeyLen)

\* values of the `company` field of a pointer record: missing, or a string
CompanyValues == {Null, <<"A">>}

PointerBodies ==
    {BinaryBody, NoPointer}
      \cup {[json |-> "record", key |-> k, company |-> c] :
              k \in PointerKeyValues, c \in CompanyValues}

\* searchParams.get("id"): null when absent, else the string
Identifiers == {Null, <<>>, <<"@">>}

\* env.PUBLIC_BASE: unset, blank, or a URL written with stray blanks and a
\* trailing slash
PublicBases == {Null, <<" ">>, <<" ", "b", "/">>}

ObjectKeys == SeqsUpTo(KeyChars, MaxKeyLen + 1) \ {<<>>}

Stored(keys, body, meta) == [k \in keys |-> [body |-> body, meta |-> meta]]

ResolveBuckets ==
    LET pointers == {EmptyBucket}
                      \cup {Stored({PointerKey(id)}, b, PlainMeta) :
                              id \in {i \in Identifiers : Truthy(i)}, b \in PointerBodies}
        objects == {Stored(K, BinaryBody, PlainMeta) : K \in KSubsets(ObjectKeys, MaxObjects)}
    IN  {p @@ o : p \in pointers, o \in objects}

InitResolve ==
    /\ bucket \in ResolveBuckets
    /\ now = 0
    /\ pc = "idle"
    /\ req = NoResolveRequest
    /\ loc = NoLocals
    /\ calls = <<>>
    /\ resp = NoResponse
    /\ prev = <<>>

NextResolve ==
    \/ \E v \in ResolveVariants, id \in Identifiers, pb \in PublicBases :
         ResolveStart(v, id, pb)
    \/ ResolveGet
    \/ ResolveJson
    \/ ResolveHead
    \/ ResolveHeadNested
    \/ ResolveList
    \/ ResolveSign

SpecResolve == InitResolve /\ [][NextResolve]_vars


-----------------------------------------------------------------------------
(* The stream handler, GET /api/stream?key=<key>[&download=1].             *)
(* Variants: "stream" is functions/api/stream.js, "part004a" is            *)
(* unnamed/part_004 lines 3-80 (clamps the range, answers 416, sends ETag  *)
(* and Last-Modified), "part004b" is unnamed/part_004 lines 86-137.        *)

StreamVariants == {"stream", "part004a", "part004b"}

DigitChars == <<"0", "1", "2", "3", "4", "5", "6", "7", "8", "9">>

IsDigit(c) == \E i \in 1..Len(DigitChars) : DigitChars[i] = c

DigitValue(c) == (CHOOSE i \in 1..Len(DigitChars) : DigitChars[i] = c) - 1

\* Number(ds) / parseInt(ds, 10) of a non-empty string of digits
RECURSIVE ParseInt(_)
ParseInt(ds) ==
    IF ds = <<>> THEN 0
    ELSE 10 * ParseInt(SubSeq(ds, 1, Len(ds) - 1)) + DigitValue(ds[Len(ds)])

\* c.toLowerCase(), and what the regular expression flag i compares
ToLower(c) ==
    CASE c = "B" -> "b" [] c = "Y" -> "y" [] c = "T" -> "t" [] c = "E" -> "e"
      [] c = "S" -> "s" [] c = "M" -> "m" [] c = "O" -> "o" [] c = "V" -> "v"
      [] OTHER -> c

LowerCase(s) == IF s = <<>> THEN <<>> ELSE [i \in 1..Len(s) |-> ToLower(s[i])]

\* length of the run of digits of s that starts at position i (\d* is greedy)
RECURSIVE DigitRun(_, _)
DigitRun(s, i) == IF i <= Len(s) /\ IsDigit(s[i]) THEN 1 + DigitRun(s, i + 1) ELSE 0

BytesEq == <<"b", "y", "t", "e", "s", "=">>

NoMatch == [matched |-> FALSE, m1 |-> <<>>, m2 |-> <<>>, last |-> 0]

\* bytes=(\d+)-(\d+)? tried at position i of s; ignoreCase is the flag i.
\* m1, m2 are the groups (m2 = <<>> when the group did not take part) and
\* last is the position of the last character matched.
MatchAt(s, i, ignoreCase) ==
    LET lit == SubSeq(s, i, i + Len(BytesEq) - 1)
        p1 == i + Len(BytesEq)
        n1 == DigitRun(s, p1)
        dash == p1 + n1
        n2 == DigitRun(s, dash + 1)
    IN  IF /\ i + Len(BytesEq) - 1 <= Len(s)
           /\ (IF ignoreCase THEN LowerCase(lit) ELSE lit) = BytesEq
           /\ n1 >= 1
           /\ dash <= Len(s)
           /\ s[dash] = "-"
        THEN [matched |-> TRUE, m1 |-> SubSeq(s, p1, dash - 1),
              m2 |-> SubSeq(s, dash + 1, dash + n2), last |-> dash + n2]
        ELSE NoMatch

\* /^bytes=(\d+)-(\d+)?$/i.exec(s)
MatchAnchored(s) ==
    LET m == MatchAt(s, 1, TRUE)
    IN  IF m.matched /\ m.last = Len(s) THEN m ELSE NoMatch

\* /bytes=(\d+)-(\d+)?/.exec(s): the leftmost match
MatchAnywhere(s) ==
    LET I == {i \in 1..Len(s) : MatchAt(s, i, FALSE).matched}
    IN  IF I = {} THEN NoMatch
        ELSE MatchAt(s, CHOOSE i \in I : \A j \in I : i <= j, FALSE)

Min(a, b) == IF a <= b THEN a ELSE b

\* guessType(k) of part_004
GuessType(k) ==
    LET ext == LowerCase(LastSegment(k, "."))
    IN  CASE ext = <<"m", "p", "4">> -> <<"video/mp4">>
          [] ext = <<"m", "o", "v">> -> <<"video/quicktime">>
          [] ext = <<"w", "e", "b", "m">> -> <<"video/webm">>
          [] ext = <<"m", "4", "v">> -> <<"video/x-m4v">>
          [] OTHER -> <<"application/octet-stream">>

\* the Content-Type a variant sends for the object
ContentType(v, key, meta) ==
    CASE v = "stream" ->
           IF Truthy(meta.httpType) THEN meta.httpType ELSE <<"video/mp4">>
      [] v = "part004a" ->
           IF Truthy(meta.httpType) THEN meta.httpType
           ELSE IF Truthy(meta.customType) THEN meta.customType
           ELSE GuessType(key)
      [] OTHER ->
           IF Truthy(meta.httpType) THEN meta.httpType
           ELSE <<"application/octet-stream">>

\* s.replace(/"/g, "")
RECURSIVE StripQuotes(_)
StripQuotes(s) ==
    IF s = <<>> THEN <<>>
    ELSE IF s[1] = "\"" THEN StripQuotes(Tail(s))
    ELSE <<s[1]>> \o StripQuotes(Tail(s))

\* key.split("/").pop() || "video.mp4"
FileName(key) ==
    LET f == LastSegment(key, "/") IN IF f = <<>> THEN <<"video.mp4">> ELSE f

\* the Content-Disposition header, Absent when the variant sends none
ContentDisposition(v, key, download) ==
    CASE v = "stream" ->
           IF download = <<"1">>
           THEN <<"attachment; filename=\"">> \o StripQuotes(FileName(key)) \o <<"\"">>
           ELSE Absent
      [] v = "part004b" ->
           IF Truthy(download)
           THEN <<"attachment; filename=\"">> \o FileName(key) \o <<"\"">>
           ELSE Absent
      [] OTHER -> Absent

\* the Cache-Control header of an object response
CacheControl(v) ==
    IF v = "stream" THEN <<"private, max-age=0, no-store">> ELSE <<"no-store">>

\* head.httpEtag || head.etag || "" (part004a only)
ETag(v, meta) ==
    IF v # "part004a" THEN Absent
    ELSE IF Truthy(meta.httpEtag) THEN meta.httpEtag
    ELSE IF Truthy(meta.etag) THEN meta.etag
    ELSE <<>>

\* head.uploaded?.toUTCString?.() || new Date().toUTCString() (part004a only);
\* a date is <<t>>, the header is not sent when <<>>
LastModified(v, meta, clock) ==
    IF v # "part004a" THEN <<>>
    ELSE IF meta.uploaded # <<>> THEN meta.uploaded
    ELSE <<clock>>

\* a Response of the stream handler.  body: "text" (the message in `text`),
\* "none" (null body) or "object" (obj.body of the body fetch);
\* contentRange: <<>> (not sent), <<start, end, size>>, or <<"*", size>>;
\* contentLength: <<>> (not set by the handler) or <<n>>
StreamResponse(status, body, text, ctype, cache, disposition, crange, clength, etag, lastMod) ==
    [status |-> status, body |-> body, text |-> text, contentType |-> ctype,
     acceptRanges |-> IF body = "object" THEN <<"bytes">> ELSE Absent,
     cacheControl |-> cache, contentDisposition |-> disposition,
     contentRange |-> crange, contentLength |-> clength,
     etag |-> etag, lastModified |-> lastMod]

\* new Response(text, {status})
StreamText(status, text) ==
    StreamResponse(status, "text", text, <<"text/plain">>, Absent, Absent,
                   <<>>, <<>>, Absent, <<>>)

NoStreamResponse == StreamText(0, "")

\* RangePlan with `end - start` written for the length
RangePlanOffByOne(v, key, download, meta, clock, start, end) ==
    [kind |-> "range", offset |-> start, length |-> end - start,
     response |->
        StreamResponse(206, "object", "", ContentType(v, key, meta), CacheControl(v),
                       ContentDisposition(v, key, download),
                       <<start, end, meta.size>>, <<end - start>>,
                       ETag(v, meta), LastModified(v, meta, clock))]

\* What the handler decides between the head and the body fetch:
\*   kind "range": fetch the slice (offset, length) and answer `response`;
\*   kind "full":  fetch the whole object and answer `response`;
\*   kind "reject": answer `response` without a body fetch.
RangePlan(v, key, download, meta, clock, start, end) ==
    [kind |-> "range", offset |-> start, length |-> end - start + 1,
     response |->
        StreamResponse(206, "object", "", ContentType(v, key, meta), CacheControl(v),
                       ContentDisposition(v, key, download),
                       <<start, end, meta.size>>, <<end - start + 1>>,
                       ETag(v, meta), LastModified(v, meta, clock))]

\* FullPlan fetching a slice (offset 0, length size) in place of the object
FullPlanAsSlice(v, key, download, meta, clock) ==
    [kind |-> "range", offset |-> 0, length |-> meta.size,
     response |->
        StreamResponse(200, "object", "", ContentType(v, key, meta), CacheControl(v),
                       ContentDisposition(v, key, download),
                       <<>>, <<meta.size>>,
                       ETag(v, meta), LastModified(v, meta, clock))]

FullPlan(v, key, download, meta, clock) ==
    [kind |-> "full", offset |-> 0, length |-> 0,
     response |->
        StreamResponse(200, "object", "", ContentType(v, key, meta), CacheControl(v),
                       ContentDisposition(v, key, download),
                       <<>>, <<meta.size>>,
                       ETag(v, meta), LastModified(v, meta, clock))]

\* new Response(null, {status: 416, headers: {"Content-Range": `bytes */${size}`}})
RejectPlan(meta) ==
    [kind |-> "reject", offset |-> 0, length |-> 0,
     response |->
        StreamResponse(416, "none", "", Absent, Absent, Absent,
                       <<"*", meta.size>>, <<>>, Absent, <<>>)]

\* stream.js lines 35-55 and part_004 lines 112-126: a range is honoured as
\* it was asked for when the header matches, else the full object is sent
PlanUnclamped(v, key, range, download, meta, clock, m) ==
    IF Truthy(range) /\ m.matched
    THEN LET start == ParseInt(m.m1)
             end == IF m.m2 # <<>> THEN ParseInt(m.m2) ELSE meta.size - 1
         IN  RangePlan(v, key, download, meta, clock, start, end)
    ELSE FullPlan(v, key, download, meta, clock)

\* part_004 lines 32-60: any Range header leads to a 206 or a 416
PlanClamped(v, key, range, download, meta, clock) ==
    IF Truthy(range)
    THEN LET m == MatchAnywhere(range)
             start == IF m.matched THEN ParseInt(m.m1) ELSE 0
             end == IF m.matched /\ m.m2 # <<>>
                    THEN Min(ParseInt(m.m2), meta.size - 1)
                    ELSE meta.size - 1
         IN  IF start >= meta.size \/ start > end
             THEN RejectPlan(meta)
             ELSE RangePlan(v, key, download, meta, clock, start, end)
    ELSE FullPlan(v, key, download, meta, clock)

Plan(v, key, range, download, meta, clock) ==
    CASE v = "stream" ->
           PlanUnclamped(v, key, range, download, meta, clock,
                         IF Truthy(range) THEN MatchAnchored(range) ELSE NoMatch)
      [] v = "part004b" ->
           PlanUnclamped(v, key, range, download, meta, clock,
                         IF Truthy(range) THEN MatchAnywhere(range) ELSE NoMatch)
      [] OTHER -> PlanClamped(v, key, range, download, meta, clock)

NoPlan == [kind |-> "none", offset |-> 0, length |-> 0, response |-> NoStreamResponse]
NoStreamLocals == [plan |-> NoPlan, fault |-> "none", dirty |-> FALSE]
NoStreamRequest == [handler |-> "none", key |-> Null, range |-> Null, download |-> Null]

\* catch (err) { return new Response("Server error", { status: 500 }) }
StreamThrowFrom(op) ==
    /\ pc' = "done"
    /\ resp' = StreamText(500, "Server error")
    /\ loc' = [loc EXCEPT !.fault = op]

\* const key = url.searchParams.get("key"); if (!key) return ...
\* (everything before the first await)
StreamBegin(v, key, range, download) ==
    /\ req' = [handler |-> v, key |-> key, range |-> range, download |-> download]
    /\ calls' = <<>>
    /\ loc' = NoStreamLocals
    /\ IF ~Truthy(key)
       THEN pc' = "done" /\ resp' = StreamText(400, "Missing key")
       ELSE pc' = "head" /\ resp' = NoStreamResponse

\* a request arrives
StreamStart(v, key, range, download) ==
    /\ pc = "idle"
    /\ StreamBegin(v, key, range, download)
    /\ prev' = <<>>
    /\ UNCHANGED <<bucket, now>>

\* the client issues the same request again, at once or later; the backend
\* has not changed since the first one arrived
StreamRepeat ==
    /\ pc = "done"
    /\ prev = <<>>
    /\ ~loc.dirty
    /\ StreamBegin(req.handler, req.key, req.range, req.download)
    /\ prev' = <<[req |-> req, resp |-> resp, fault |-> loc.fault]>>
    /\ now' \in now..MaxClock
    /\ UNCHANGED bucket

\* const head = await env.R2_BUCKET.head(key); if (!head) return 404;
\* then everything up to the body fetch
StreamHead ==
    /\ pc = "head"
    /\ calls' = Append(calls, Call("head", req.key, <<>>))
    /\ \E t \in Throws("head") :
         IF t THEN StreamThrowFrom("head")
         ELSE IF ~Has(bucket, req.key)
              THEN Return(StreamText(404, "Not found"))
              ELSE LET plan == Plan(req.handler, req.key, req.range, req.download,
                                    bucket[req.key].meta, now)
                   IN  IF plan.kind = "reject" THEN Return(plan.response)
                       ELSE /\ pc' = "get"
                            /\ loc' = [loc EXCEPT !.plan = plan]
                            /\ resp' = resp
    /\ UNCHANGED <<bucket, now, req, prev>>

\* StreamGet without `if (!obj) return new Response("Not found", ...)`
StreamGetUnchecked ==
    /\ pc = "get"
    /\ calls' = Append(calls,
                       Call("get", req.key,
                            IF loc.plan.kind = "range"
                            THEN <<loc.plan.offset, loc.plan.length>> ELSE <<>>))
    /\ \E t \in Throws("get") :
         IF t THEN StreamThrowFrom("get") ELSE Return(loc.plan.response)
    /\ UNCHANGED <<bucket, now, req, prev>>

\* const obj = await env.R2_BUCKET.get(key[, {range}]); if (!obj) return 404;
\* return new Response(obj.body, ...)
StreamGet ==
    /\ pc = "get"
    /\ calls' = Append(calls,
                       Call("get", req.key,
                            IF loc.plan.kind = "range"
                            THEN <<loc.plan.offset, loc.plan.length>> ELSE <<>>))
    /\ \E t \in Throws("get") :
         IF t THEN StreamThrowFrom("get")
         ELSE IF ~Has(bucket, req.key) THEN Return(StreamText(404, "Not found"))
         ELSE Return(loc.plan.response)
    /\ UNCHANGED <<bucket, now, req, prev>>

\* a concurrent writer removes the object the request in flight is about
BackendRemove ==
    /\ pc \in {"head", "get"}
    /\ Has(bucket, req.key)
    /\ bucket' = [k \in DOMAIN bucket \ {req.key} |-> bucket[k]]
    /\ loc' = [loc EXCEPT !.dirty = TRUE]
    /\ prev' = <<>>
    /\ UNCHANGED <<now, pc, req, calls, resp>>

-----------------------------------------------------------------------------
(* Requests and buckets of the stream specification.                       *)

\* keys of streamed objects: an upper-case extension, and a file name with
\* a double quote in a directory
StreamKeys == {<<"a", ".", "M", "O", "V">>, <<"v", "/", "\"", "x">>}

\* searchParams.get("key"): null when absent
KeyParams == {Null, <<>>} \cup StreamKeys

\* searchParams.get("download")
DownloadParams == {Null, <<"1">>}

\* a position of a Range header: not written, or one digit
Positions == {<<>>} \cup {<<DigitChars[n + 1]>> : n \in 0..(MaxSize + 1)}

\* request.headers.get("Range"): no header, an empty one, every
\* bytes=<start>-<end> with either position possibly missing, and headers
\* with another case, a leading word, a second range, another unit, a
\* two-digit position
RangeHeaders ==
    {Null, <<>>}
      \cup {BytesEq \o s \o <<"-">> \o e : s \in Positions, e \in Positions}
      \cup {<<"B", "Y", "T", "E", "S", "=", "0", "-", "0">>,
            <<"x">> \o BytesEq \o <<"0", "-", "0">>,
            BytesEq \o <<"0", "-", "0", ",", "1", "-", "1">>,
            <<"i", "t", "e", "m", "s", "=", "0", "-", "0">>,
            BytesEq \o <<"0", "-", "1", "0">>}

\* metadata of stored objects as head() reports it: an object uploaded with a
\* content type, one with a custom content type only and no upload date
\* (as an in-memory stand-in of the bucket reports), one with neither type
Metas ==
    {[size |-> n, httpType |-> m[1], customType |-> m[2], httpEtag |-> m[3],
      etag |-> <<"e">>, uploaded |-> m[4]] :
        n \in 0..MaxSize,
        m \in {<< <<"t">>, Null, <<"h">>, <<0>> >>,
               << Null, <<"c">>, Null, <<>> >>,
               << Null, Null, Null, <<0>> >>}}

StreamBuckets ==
    {EmptyBucket} \cup {Stored({k}, BinaryBody, m) : k \in StreamKeys, m \in Metas}

InitStream ==
    /\ bucket \in StreamBuckets
    /\ now = 0
    /\ pc = "idle"
    /\ req = NoStreamRequest
    /\ loc = NoStreamLocals
    /\ calls = <<>>
    /\ resp = NoStreamResponse
    /\ prev = <<>>

NextStream ==
    \/ \E v \in StreamVariants, k \in KeyParams, r \in RangeHeaders, d \in DownloadParams :
         StreamStart(v, k, r, d)
    \/ StreamRepeat
    \/ StreamHead
    \/ StreamGet
    \/ BackendRemove

SpecStream == InitStream /\ [][NextStream]_vars


-----------------------------------------------------------------------------
(* Properties of the resolve handler (SpecResolve).                        *)

\* the pointer record stored for the identifier of the request
StoredPointer == bucket[PointerKey(req.id)].body

\* the request has ended and no backend call of it threw
ResolveAnswered == pc = "done" /\ loc.fault = "none"

\* the request found a pointer record with a non-empty key
HasKeyedPointer ==
    /\ Truthy(req.id)
    /\ Has(bucket, PointerKey(req.id))
    /\ StoredPointer.json = "record"
    /\ Truthy(StoredPointer.key)

\* the calls of the request whose op is in ops
CallsOf(ops) == {i \in 1..Len(calls) : calls[i].op \in ops}

\* C1: every response of the resolve handler has status 200 and a JSON body,
\* whatever the outcome (success, MISSING_ID, POINTER_NOT_FOUND, EMPTY_KEY,
\* OBJECT_NOT_FOUND, or a backend call that throws, reported as SERVER).
C1_AlwaysOkJson ==
    pc = "done" =>
        /\ resp.status = 200
        /\ resp.contentType = "application/json"
        /\ resp.error \in {"", "MISSING_ID", "POINTER_NOT_FOUND", "EMPTY_KEY",
                           "OBJECT_NOT_FOUND", "SERVER"}

\* C2: a resolve request with a non-empty identifier is answered with the
\* link computed from the identifier and the base URL, whatever the outcome,
\* also when a backend call throws after the link was computed (stated of
\* the variants that answer every outcome with a structured result).
C2_LinkWhateverOutcome ==
    (pc = "done" /\ req.handler \in {"sample2", "part000"} /\ Truthy(req.id)) =>
        /\ resp.link # Null
        /\ resp.link = Link(req.publicBase, req.id)

\* C3: the resolve handler reports the earliest failing step and issues no
\* backend call of a later step: no identifier gives MISSING_ID without any
\* storage access; no pointer record gives POINTER_NOT_FOUND with company
\* null after the single get; a record whose key is empty or missing gives
\* EMPTY_KEY with the record's company and no head, list or sign call.
C3_EarliestFailure ==
    ResolveAnswered =>
        /\ ~Truthy(req.id) =>
             /\ calls = <<>>
             /\ req.handler # "sample1" => resp.error = "MISSING_ID"
        /\ (Truthy(req.id) /\ ~Has(bucket, PointerKey(req.id))) =>
             /\ resp.error = "POINTER_NOT_FOUND"
             /\ resp.company = Null
             /\ calls = <<Call("get", PointerKey(req.id), <<>>)>>
        /\ (/\ Truthy(req.id)
            /\ Has(bucket, PointerKey(req.id))
            /\ StoredPointer.json = "record"
            /\ ~Truthy(StoredPointer.key)) =>
             /\ resp.error = "EMPTY_KEY"
             /\ resp.company = IF Truthy(StoredPointer.company)
                               THEN StoredPointer.company ELSE Null
             /\ CallsOf({"head", "list", "sign"}) = {}

\* C3, its case reached: an EMPTY_KEY answer that carries the record's company
C3_Witness ==
    /\ pc = "done"
    /\ req.handler = "sample2"
    /\ resp.error = "EMPTY_KEY"
    /\ resp.company = <<"A">>
    /\ Len(calls) = 2

\* the delivery reference a variant builds from key k
DeliveryReference(v, k) ==
    IF v = "sample2" THEN <<"/api/stream?key=">> \o EncodeURIComponent(k)
    ELSE <<"signed:">> \o k

\* the pointer key K has no object but nested has one
NestedOnly(nested) ==
    /\ ResolveAnswered
    /\ HasKeyedPointer
    /\ ~Has(bucket, StoredPointer.key)
    /\ Has(bucket, nested)

\* resolve succeeded with the key nested, found by the nested head and not
\* by a prefix listing, and the delivery reference is built from it
FoundNested(nested) ==
    /\ resp.status = 200
    /\ resp.error = ""
    /\ resp.foundKey = nested
    /\ resp.url = DeliveryReference(req.handler, nested)
    /\ CallsOf({"list"}) = {}
    /\ \A i \in CallsOf({"sign"}) : calls[i].key = nested
    /\ \E i \in CallsOf({"head"}) : calls[i].key = nested

\* K/basename(K): the last path segment of K repeated as a child of K,
\* where a trailing slash of K neither counts as a segment nor is doubled
ChildNamedAsParent(K) ==
    LET B == StripTrailingSlashes(K) IN B \o <<"/">> \o LastSegment(B, "/")

\* C4: for every pointer key K with no object at K and one at K/basename(K),
\* resolve succeeds with foundKey = K/basename(K), and the delivery reference
\* is built from that nested key, not from K and not from a listing result.
C4_NestedKeyFound ==
    (HasKeyedPointer /\ NestedOnly(ChildNamedAsParent(StoredPointer.key))) =>
        FoundNested(ChildNamedAsParent(StoredPointer.key))

\* C4, its case reached: the key "a" resolved to the object at "a/a"
C4_Witness ==
    /\ HasKeyedPointer
    /\ StoredPointer.key = <<"a">>
    /\ NestedOnly(<<"a", "/", "a">>)
    /\ resp.foundKey = <<"a", "/", "a">>
    /\ Len(calls) >= 4

IsAttempt(c) == c.op \in {"head", "list"}

\* the key-resolution attempts issued so far
Attempts == SelectSeq(calls, IsAttempt)

\* the three attempts for candidate key K, in their order
ExpectedAttempts(K) ==
    <<Call("head", K, <<>>),
      Call("head", ChildNamedAsParent(K), <<>>),
      Call("list", IF EndsWith(K, "/") THEN K ELSE K \o <<"/">>, <<1>>)>>

\* C10: the attempts of one request run in the order exact head, nested
\* head, prefix listing (limit 1), each at most once; the nested head only
\* after the exact head found nothing, the listing only after both found
\* nothing; when all three find nothing the answer is OBJECT_NOT_FOUND with
\* wantedKey the pointer record's key.
C10_OrderedAttempts ==
    /\ Attempts # <<>> =>
        /\ HasKeyedPointer
        /\ Len(Attempts) <= 3
        /\ Attempts = SubSeq(ExpectedAttempts(StoredPointer.key), 1, Len(Attempts))
        /\ Len(Attempts) >= 2 => ~Has(bucket, StoredPointer.key)
        /\ Len(Attempts) = 3 => ~Has(bucket, ChildNamedAsParent(StoredPointer.key))
    /\ (ResolveAnswered /\ Len(Attempts) = 3
           /\ ~\E k \in DOMAIN bucket : StartsWith(k, calls[Len(calls)].key)) =>
        /\ resp.error = "OBJECT_NOT_FOUND"
        /\ resp.wantedKey = StoredPointer.key
    /\ (pc = "done" /\ resp.error = "OBJECT_NOT_FOUND") =>
        /\ Len(Attempts) = 3
        /\ resp.url = Null

\* C10, its case reached: all three attempts found nothing
C10_Witness ==
    /\ pc = "done"
    /\ Len(Attempts) = 3
    /\ resp.error = "OBJECT_NOT_FOUND"
    /\ resp.wantedKey = <<"a", "/">>

-----------------------------------------------------------------------------
(* Properties of the stream handler (SpecStream).                          *)

\* the request has ended, no backend call of it threw, and the object it
\* names was there throughout
StreamAnswered ==
    /\ pc = "done"
    /\ loc.fault = "none"
    /\ ~loc.dirty
    /\ Truthy(req.key)
    /\ Has(bucket, req.key)

ObjectSize == bucket[req.key].meta.size

\* the header `bytes=<s>-<e>` / `bytes=<s>-`
RangeOf(s, e) == BytesEq \o <<DigitChars[s + 1]>> \o <<"-">> \o <<DigitChars[e + 1]>>
OpenRangeOf(s) == BytesEq \o <<DigitChars[s + 1]>> \o <<"-">>

PositionValues == 0..(MaxSize + 1)

\* the handler fetched the whole object and answered 200 with its size
ServedWhole ==
    /\ calls = <<Call("head", req.key, <<>>), Call("get", req.key, <<>>)>>
    /\ resp.status = 200
    /\ resp.contentLength = <<ObjectSize>>
    /\ resp.contentRange = <<>>

\* C5: for an existing object of size `size` and a header bytes=start-end
\* with 0 <= start <= end < size, the handler fetches exactly the slice
\* (offset start, length end-start+1) and answers 206 with
\* Content-Range: bytes start-end/size and Content-Length end-start+1.
C5_ValidRangeServed ==
    \A s \in PositionValues, e \in PositionValues :
        (/\ StreamAnswered
         /\ req.range = RangeOf(s, e)
         /\ s <= e
         /\ e < ObjectSize) =>
            /\ calls = <<Call("head", req.key, <<>>),
                         Call("get", req.key, <<s, e - s + 1>>)>>
            /\ resp.status = 206
            /\ resp.body = "object"
            /\ resp.contentRange = <<s, e, ObjectSize>>
            /\ resp.contentLength = <<e - s + 1>>

\* C5, its case reached: bytes=1-1 of a two-byte object
C5_Witness ==
    /\ StreamAnswered
    /\ req.range = RangeOf(1, 1)
    /\ ObjectSize = 2
    /\ resp.status = 206
    /\ resp.contentLength = <<1>>

\* C6: every 206 response carries a range with 0 <= start <= end < size (a
\* requested end >= size is clamped to size-1 before the fetch), so that
\* Content-Length = end-start+1 is positive and at most size.
C6_PartialWithinObject ==
    (pc = "done" /\ resp.status = 206) =>
        /\ Len(resp.contentRange) = 3
        /\ 0 <= resp.contentRange[1]
        /\ resp.contentRange[1] <= resp.contentRange[2]
        /\ resp.contentRange[2] < resp.contentRange[3]
        /\ resp.contentLength = <<resp.contentRange[2] - resp.contentRange[1] + 1>>
        /\ calls[Len(calls)].opt =
             <<resp.contentRange[1], resp.contentRange[2] - resp.contentRange[1] + 1>>

\* Range headers that do not match bytes=<start>-<end>?: a suffix range,
\* several ranges, another unit, a leading word, an empty header
NotSingleRange ==
    {<<>>}
      \cup {BytesEq \o <<"-">> \o e : e \in Positions}
      \cup {BytesEq \o <<"0", "-", "0", ",", "1", "-", "1">>,
            <<"i", "t", "e", "m", "s", "=", "0", "-", "0">>,
            <<"x">> \o BytesEq \o <<"0", "-", "0">>}

\* C7: without a Range header, or with one that does not match the
\* single-range grammar, the handler fetches the whole object and answers
\* 200 with Content-Length = size and no Content-Range.
C7_NoUsableRangeServedWhole ==
    (StreamAnswered /\ (req.range = Null \/ req.range \in NotSingleRange)) =>
        ServedWhole

\* C8: a header that matches the grammar but names a range invalid for the
\* object (start > end, or start >= size) is served as the full object: 200,
\* Content-Length = size, a whole-object fetch; never a slice fetch of
\* non-positive length and never 206 (stated of functions/api/stream.js).
C8_InvalidRangeServedWhole ==
    \A s \in PositionValues :
        (/\ StreamAnswered
         /\ req.handler = "stream"
         /\ \/ req.range = OpenRangeOf(s) /\ s >= ObjectSize
            \/ \E e \in PositionValues :
                 req.range = RangeOf(s, e) /\ (s > e \/ s >= ObjectSize)) =>
            ServedWhole

\* C9: a request repeated with the same inputs against an unchanged backend
\* gets the same response: status, headers (ETag and Last-Modified
\* included) and body; nothing depends on the current time or on an
\* earlier request.
C9_RepeatedRequestSameResponse ==
    (pc = "done" /\ prev # <<>> /\ ~loc.dirty) =>
        /\ prev[1].req = req
        /\ prev[1].resp = resp

\* the calls a stream request issues
IsHead(c) == c = Call("head", req.key, <<>>)
IsWholeGet(c) == c = Call("get", req.key, <<>>)
IsSliceGet(c) == c.op = "get" /\ c.key = req.key /\ Len(c.opt) = 2

\* C11: a stream request without a key parameter ends in 400 with no backend
\* call; any other issues exactly one metadata head, before any body fetch;
\* a head that finds nothing ends in 404 with no body fetch; a request that
\* reaches a body fetch issues exactly one, a slice fetch (the only way to a
\* 206) or a whole-object fetch (the only way to a 200), never both.
C11_RequestStateMachine ==
    /\ (pc # "idle" /\ ~Truthy(req.key)) =>
          /\ pc = "done"
          /\ calls = <<>>
          /\ resp = StreamText(400, "Missing key")
    /\ (pc # "idle" /\ Truthy(req.key)) =>
          /\ Len(calls) <= 2
          /\ Len(calls) >= 1 => IsHead(calls[1])
          /\ Len(calls) = 2 => IsWholeGet(calls[2]) \/ IsSliceGet(calls[2])
          /\ pc = "done" => Len(calls) >= 1
          /\ (pc = "done" /\ loc.fault = "none" /\ ~loc.dirty
                /\ ~Has(bucket, req.key)) =>
                /\ Len(calls) = 1
                /\ resp = StreamText(404, "Not found")
          /\ (pc = "done" /\ resp.status = 206) =>
                Len(calls) = 2 /\ IsSliceGet(calls[2])
          /\ (pc = "done" /\ resp.status = 200) =>
                Len(calls) = 2 /\ IsWholeGet(calls[2])

\* C11, its case reached: a request that went through head and a
\* whole-object fetch to a 200
C11_Witness ==
    /\ pc = "done"
    /\ Truthy(req.key)
    /\ calls = <<Call("head", req.key, <<>>), Call("get", req.key, <<>>)>>
    /\ resp.status = 200
    /\ resp.body = "object"

\* C12: when the object is removed between the head and the body fetch (the
\* slice or whole-object get returns nothing), the response is 404 "Not
\* found"; a 200 or 206 is only returned for an object the body fetch found.
C12_RemovedBeforeFetchNotFound ==
    /\ (pc = "done" /\ Len(calls) = 2 /\ loc.fault = "none"
          /\ ~Has(bucket, req.key)) =>
          resp = StreamText(404, "Not found")
    /\ (pc = "done" /\ resp.status \in {200, 206}) => Has(bucket, req.key)

\* C12, its case reached: the object was removed after the head of a range
\* request and the slice fetch found nothing
C12_Witness ==
    /\ pc = "done"
    /\ loc.dirty
    /\ Len(calls) = 2
    /\ IsSliceGet(calls[2])
    /\ ~Has(bucket, req.key)
    /\ resp.status = 404

=============================================================================
